---- MODULE Spec2Model ----
(***************************************************************************)
(* Model of the SolRazr token-sale JavaScript client                       *)
(* (js/client/token-sale.js): the Numberu64 codec, the three instruction   *)
(* builders and the three orchestrator operations of class TokenSale,      *)
(* together with the ledger they submit transactions to.                   *)
(*                                                                         *)
(* Representation.                                                         *)
(*  - A BN (bn.js big number) is [negative, bytes]: its sign and its       *)
(*    magnitude as the minimal big-endian sequence of base-256 digits      *)
(*    (<<>> is zero).  This is what BN.toArray() exposes.                  *)
(*  - A JavaScript number argument is [kind |-> "number", num, den], the   *)
(*    rational num/den; a Numberu64 argument is [kind |-> "bn", negative,  *)
(*    bytes].                                                              *)
(*  - A Buffer is a sequence of bytes (0..255).                            *)
(*  - A function that can throw returns [ok |-> FALSE, ...] for the throw. *)
(*  - A PublicKey is [seed, id]: seed "none" for an ordinary key, and the  *)
(*    seed string for a program-derived address of program id.             *)
(***************************************************************************)
EXTENDS Integers, Sequences, FiniteSets, TLC

(***************************************************************************)
(* Bounds of the model                                                     *)
(***************************************************************************)
\* longest BN magnitude (in bytes) drawn as a codec input: 9 bytes reach 2^64 and above
MaxBytes == 9
\* longest raw buffer handed to Numberu64.fromBuffer
MaxRawLen == 9
\* longest buffer handed to the decode of the sale-state layout: beyond its span
MaxStateLen == 203

(***************************************************************************)
(* Small helpers on sequences                                              *)
(***************************************************************************)
Reverse(s) == [i \in 1..Len(s) |-> s[Len(s) + 1 - i]]

Zeros(n) == [i \in 1..n |-> 0]

RECURSIVE StripLeadingZeros(_)
StripLeadingZeros(s) ==
  IF s = <<>> THEN <<>>
  ELSE IF Head(s) = 0 THEN StripLeadingZeros(Tail(s))
  ELSE s

RECURSIVE IntToBytes(_)
\* big-endian base-256 digits of a natural number, minimal (<<>> for 0)
IntToBytes(n) ==
  IF n = 0 THEN <<>> ELSE Append(IntToBytes(n \div 256), n % 256)

(***************************************************************************)
(* bn.js: construction and toArray                                         *)
(***************************************************************************)
\* a JavaScript number argument: the rational num/den (den > 0)
Num(i) == [kind |-> "number", num |-> i, den |-> 1]

Frac(i, d) == [kind |-> "number", num |-> i, den |-> d]

\* a Numberu64 (BN) argument of the given sign and magnitude
Big(neg, bytes) == [kind |-> "bn", negative |-> neg, bytes |-> bytes]

\* new Numberu64(x): BN's constructor returns a BN argument as it is, and
\* _initNumber stores the sign of a number argument and the integer part of
\* its magnitude (number & 0x3ffffff, word by word).  The constructor
\* asserts number < 2^53; number arguments of the model stay below 2^31.
NewNumberu64(x) ==
  IF x.kind = "bn"
  THEN [negative |-> x.negative, bytes |-> x.bytes]
  ELSE [negative |-> x.num < 0,
        bytes |-> IntToBytes((IF x.num < 0 THEN 0 - x.num ELSE x.num) \div x.den)]

\* BN.prototype.toArray(): big-endian bytes of the magnitude, at least one byte
BNtoArray(bn) == IF bn.bytes = <<>> THEN <<0>> ELSE bn.bytes

(***************************************************************************)
(* Numberu64 (token-sale.js 35-65)                                         *)
(***************************************************************************)
U64Width == 8

\* Buffer.alloc(8); b.copy(zeroPad)
ZeroPad(b) == b \o Zeros(U64Width - Len(b))

\* a mutant without the width assertion: keeps the low 8 bytes
toBufferNoAssert(bn) ==
  LET b == Reverse(BNtoArray(bn)) IN
  IF Len(b) >= U64Width THEN [ok |-> TRUE, buf |-> SubSeq(b, 1, U64Width)]
  ELSE [ok |-> TRUE, buf |-> ZeroPad(b)]

\* Numberu64.prototype.toBuffer
toBuffer(bn) ==
  LET b == Reverse(BNtoArray(bn)) IN
  IF Len(b) = U64Width THEN [ok |-> TRUE, buf |-> b]
  ELSE IF ~(Len(b) < U64Width) THEN [ok |-> FALSE, buf |-> <<>>]
  ELSE [ok |-> TRUE, buf |-> ZeroPad(b)]

\* `00${i.toString(16)}`.slice(-2): the two hexadecimal digits of a byte
HexPair(i) == <<i \div 16, i % 16>>

RECURSIVE HexJoin(_)
\* .map(HexPair).join('')
HexJoin(bytes) ==
  IF bytes = <<>> THEN <<>> ELSE HexPair(Head(bytes)) \o HexJoin(Tail(bytes))

\* new BN(hexString, 16): the magnitude the hexadecimal digits denote
ParseHex(h) ==
  LET padded == IF Len(h) % 2 = 1 THEN <<0>> \o h ELSE h
      bytes  == [i \in 1..(Len(padded) \div 2) |->
                   16 * padded[2 * i - 1] + padded[2 * i]]
  IN [negative |-> FALSE, bytes |-> StripLeadingZeros(bytes)]

\* a mutant that forgets the reverse() of the little-endian buffer
fromBufferNoReverse(buffer) ==
  IF Len(buffer) # U64Width
  THEN [ok |-> FALSE, val |-> [negative |-> FALSE, bytes |-> <<>>]]
  ELSE [ok |-> TRUE, val |-> ParseHex(HexJoin(buffer))]

\* Numberu64.fromBuffer
fromBuffer(buffer) ==
  IF Len(buffer) # U64Width
  THEN [ok |-> FALSE, val |-> [negative |-> FALSE, bytes |-> <<>>]]
  ELSE [ok |-> TRUE, val |-> ParseHex(HexJoin(Reverse(buffer)))]

(***************************************************************************)
(* buffer-layout: struct, u8 and the 8-byte uint64 field of ./layout       *)
(***************************************************************************)
\* BufferLayout.u8(property)
u8(property) == [property |-> property, span |-> 1, kind |-> "uint"]

\* BufferLayout.blob(n, property)
blob(n, property) == [property |-> property, span |-> n, kind |-> "blob"]

\* Layout.uint64(property) of js/client/layout.js: a blob of 8 bytes
uint64(property) == blob(8, property)

\* publicKey(property) (token-sale.js 226-228)
publicKey(property) == blob(32, property)

RECURSIVE StructSpan(_)
\* Structure.span: the sum of the spans of the fields
StructSpan(fields) ==
  IF fields = <<>> THEN 0 ELSE Head(fields).span + StructSpan(Tail(fields))

\* offset of field k: the spans of the fields declared before it
FieldOffset(fields, k) == StructSpan(SubSeq(fields, 1, k - 1))

\* Blob.encode / UInt.encode: the span bytes a field writes for its value
FieldBytes(field, v) ==
  [o \in 1..field.span |-> IF o <= Len(v) THEN v[o] ELSE 0]

RECURSIVE StructEncode(_, _)
\* Structure.encode(src, b): the fields write src[property] one after the
\* other, each at the offset where the one before it ended, into the
\* Buffer.alloc(span) b
StructEncode(fields, src) ==
  IF fields = <<>> THEN <<>>
  ELSE FieldBytes(Head(fields), src[Head(fields).property])
         \o StructEncode(Tail(fields), src)

\* Structure.decode(b): every field reads its span at its offset
StructDecode(fields, b) ==
  [p \in {fields[j].property : j \in 1..Len(fields)} |->
     LET k == CHOOSE j \in 1..Len(fields) : fields[j].property = p
     IN SubSeq(b, FieldOffset(fields, k) + 1, FieldOffset(fields, k) + fields[k].span)]

\* Buffer.prototype.slice(start, end): the bytes from offset start up to, not
\* including, offset end, as many of them as the buffer has
Slice(b, start, end) ==
  LET hi == IF end > Len(b) THEN Len(b) ELSE end
  IN IF start >= hi THEN <<>> ELSE SubSeq(b, start + 1, hi)

\* a mutant decode that first compares the buffer length with the span
StructureDecodeChecked(fields, b) ==
  [ok  |-> Len(b) = StructSpan(fields),
   val |-> [p \in {fields[j].property : j \in 1..Len(fields)} |->
              LET k == CHOOSE j \in 1..Len(fields) : fields[j].property = p
              IN Slice(b, FieldOffset(fields, k), FieldOffset(fields, k) + fields[k].span)]]

\* Structure.decode(b) of buffer-layout on any buffer: every field decodes at
\* its offset; UInt.decode is b.readUIntLE, which throws when the read leaves
\* the buffer, Blob.decode is b.slice(offset, offset + span), which does not
StructureDecode(fields, b) ==
  [ok  |-> \A j \in 1..Len(fields) :
             fields[j].kind = "uint" => FieldOffset(fields, j) + fields[j].span <= Len(b),
   val |-> [p \in {fields[j].property : j \in 1..Len(fields)} |->
              LET k == CHOOSE j \in 1..Len(fields) : fields[j].property = p
              IN Slice(b, FieldOffset(fields, k), FieldOffset(fields, k) + fields[k].span)]]

(***************************************************************************)
(* Addresses                                                               *)
(***************************************************************************)
\* an ordinary PublicKey
Key(name) == [seed |-> "none", id |-> name]

\* PublicKey.findProgramAddress(seeds, programId)[0] of @solana/web3.js: an
\* address that is a function of the seeds and of the program id, and of
\* nothing else
findProgramAddress(seed, programId) == [seed |-> seed, id |-> programId.id]

\* exports of js/client/pubkeys.js and of @solana/web3.js
TOKEN_SALE_PROGRAM_ID == Key("TOKEN_SALE_PROGRAM_ID")

TOKEN_WHITELIST_PROGRAM_ID == Key("TOKEN_WHITELIST_PROGRAM_ID")

TOKEN_PROGRAM_ID == Key("TOKEN_PROGRAM_ID")

ASSOCIATED_TOKEN_ACCOUNT_PROGRAM_ID == Key("ASSOCIATED_TOKEN_ACCOUNT_PROGRAM_ID")

SYSVAR_RENT_PUBKEY == Key("SYSVAR_RENT_PUBKEY")

SystemProgramId == Key("SystemProgram")

\* an Account (key pair) is known by its public key
Account(name) == [publicKey |-> Key(name)]

\* one entry of an instruction's account-reference list
Meta(pubkey, isSigner, isWritable) ==
  [pubkey |-> pubkey, isSigner |-> isSigner, isWritable |-> isWritable]

NoInstruction == [keys |-> <<>>, programId |-> Key("none"), data |-> <<>>]

(***************************************************************************)
(* Instruction builders (token-sale.js 279-331, 366-401, 451-498)          *)
(***************************************************************************)
\* a mutant layout that declares the two bounds in the other order
InitDataLayoutSwapped ==
  << u8("instruction"),
     uint64("token_sale_amount"),
     uint64("usd_max_amount"),
     uint64("usd_min_amount"),
     uint64("token_sale_price"),
     uint64("token_sale_time") >>

\* the data layout of the Init instruction (294-301)
InitDataLayout ==
  << u8("instruction"),
     uint64("token_sale_amount"),
     uint64("usd_min_amount"),
     uint64("usd_max_amount"),
     uint64("token_sale_price"),
     uint64("token_sale_time") >>

\* a mutant that writes the reciprocal scaled by 100 instead
PriceReciprocalTimes100(price) == Frac(price.den * 100, price.num)

\* price*100 (310): the product of a JavaScript number by 100
PriceTimes100(price) == Frac(price.num * 100, price.den)

\* a mutant Init account list with whitelist map and token program exchanged
InitKeysSwapped(poolTransferAuthority, tokenSaleAccount, poolDestination, saleTokenAccount, tokenProgramId, tokenWhitelistProgramId, tokenWhitelistMap) ==
  << Meta(poolTransferAuthority, TRUE, FALSE),
     Meta(tokenSaleAccount, FALSE, TRUE),
     Meta(poolDestination, FALSE, FALSE),
     Meta(saleTokenAccount, FALSE, TRUE),
     Meta(tokenProgramId, FALSE, FALSE),
     Meta(tokenWhitelistMap, FALSE, FALSE),
     Meta(tokenWhitelistProgramId, FALSE, FALSE),
     Meta(SYSVAR_RENT_PUBKEY, FALSE, FALSE) >>

\* the account list of the Init instruction (316-325)
InitKeys(poolTransferAuthority, tokenSaleAccount, poolDestination, saleTokenAccount, tokenProgramId, tokenWhitelistProgramId, tokenWhitelistMap) ==
  << Meta(poolTransferAuthority, TRUE, FALSE),
     Meta(tokenSaleAccount, FALSE, TRUE),
     Meta(poolDestination, FALSE, FALSE),
     Meta(saleTokenAccount, FALSE, TRUE),
     Meta(tokenWhitelistMap, FALSE, FALSE),
     Meta(tokenProgramId, FALSE, FALSE),
     Meta(tokenWhitelistProgramId, FALSE, FALSE),
     Meta(SYSVAR_RENT_PUBKEY, FALSE, FALSE) >>

\* TokenSale.initTokenSaleInstruction: throws when a toBuffer() throws
initTokenSaleInstruction(tokenSaleProgramId, amount, minAmount, maxAmount, price, timestamp, poolTransferAuthority, tokenSaleAccount, poolDestination, saleTokenAccount, tokenProgramId, tokenWhitelistProgramId, tokenWhitelistMap) ==
  LET a == toBuffer(NewNumberu64(amount))
      n == toBuffer(NewNumberu64(minAmount))
      x == toBuffer(NewNumberu64(maxAmount))
      p == toBuffer(NewNumberu64(PriceTimes100(price)))
      t == toBuffer(NewNumberu64(timestamp))
  IN IF ~(a.ok /\ n.ok /\ x.ok /\ p.ok /\ t.ok)
     THEN [ok |-> FALSE, ins |-> NoInstruction]
     ELSE [ok |-> TRUE,
           ins |-> [keys |-> InitKeys(poolTransferAuthority, tokenSaleAccount,
                                      poolDestination, saleTokenAccount,
                                      tokenProgramId, tokenWhitelistProgramId,
                                      tokenWhitelistMap),
                    programId |-> tokenSaleProgramId,
                    data |-> StructEncode(InitDataLayout,
                               [instruction       |-> <<0>>,
                                token_sale_amount |-> a.buf,
                                usd_min_amount    |-> n.buf,
                                usd_max_amount    |-> x.buf,
                                token_sale_price  |-> p.buf,
                                token_sale_time   |-> t.buf])]]

\* the data layout of the Fund instruction (375-378)
FundDataLayout == << u8("instruction"), uint64("token_sale_amount") >>

\* a mutant Fund account list with the two token accounts exchanged
FundKeysSwapped(poolTransferAuthority, tokenSaleAccount, poolAccount, saleTokenAccount, tokenProgramId) ==
  << Meta(poolTransferAuthority, TRUE, FALSE),
     Meta(tokenSaleAccount, FALSE, FALSE),
     Meta(saleTokenAccount, FALSE, TRUE),
     Meta(poolAccount, FALSE, TRUE),
     Meta(tokenProgramId, FALSE, FALSE) >>

\* the account list of the Fund instruction (389-395)
FundKeys(poolTransferAuthority, tokenSaleAccount, poolAccount, saleTokenAccount, tokenProgramId) ==
  << Meta(poolTransferAuthority, TRUE, FALSE),
     Meta(tokenSaleAccount, FALSE, FALSE),
     Meta(poolAccount, FALSE, TRUE),
     Meta(saleTokenAccount, FALSE, TRUE),
     Meta(tokenProgramId, FALSE, FALSE) >>

\* TokenSale.fundTokenSaleInstruction
fundTokenSaleInstruction(tokenSaleProgramId, amount, poolTransferAuthority, tokenSaleAccount, poolAccount, saleTokenAccount, tokenProgramId) ==
  LET a == toBuffer(NewNumberu64(amount))
  IN IF ~a.ok
     THEN [ok |-> FALSE, ins |-> NoInstruction]
     ELSE [ok |-> TRUE,
           ins |-> [keys |-> FundKeys(poolTransferAuthority, tokenSaleAccount,
                                      poolAccount, saleTokenAccount,
                                      tokenProgramId),
                    programId |-> tokenSaleProgramId,
                    data |-> StructEncode(FundDataLayout,
                               [instruction       |-> <<1>>,
                                token_sale_amount |-> a.buf])]]

\* the data layout of the Execute instruction (466-469)
ExecuteDataLayout == << u8("instruction"), uint64("usd_amount") >>

\* a mutant Execute account list with user source and destination exchanged
ExecuteKeysSwapped(userAccount, tokenSaleAccount, userSource, userDestination, saleTokenAccount, poolDestination, tokenProgramId, salePDA, tokenWhitelistProgramId, tokenWhitelistMap, tokenWhitelistAccount) ==
  << Meta(userAccount, TRUE, FALSE),
     Meta(tokenSaleAccount, FALSE, FALSE),
     Meta(saleTokenAccount, FALSE, TRUE),
     Meta(userSource, FALSE, TRUE),
     Meta(userDestination, FALSE, TRUE),
     Meta(poolDestination, FALSE, TRUE),
     Meta(salePDA, FALSE, FALSE),
     Meta(tokenProgramId, FALSE, FALSE),
     Meta(tokenWhitelistMap, FALSE, TRUE),
     Meta(tokenWhitelistAccount, FALSE, TRUE),
     Meta(tokenWhitelistProgramId, FALSE, FALSE) >>

\* the account list of the Execute instruction (480-492)
ExecuteKeys(userAccount, tokenSaleAccount, userSource, userDestination, saleTokenAccount, poolDestination, tokenProgramId, salePDA, tokenWhitelistProgramId, tokenWhitelistMap, tokenWhitelistAccount) ==
  << Meta(userAccount, TRUE, FALSE),
     Meta(tokenSaleAccount, FALSE, FALSE),
     Meta(saleTokenAccount, FALSE, TRUE),
     Meta(userDestination, FALSE, TRUE),
     Meta(userSource, FALSE, TRUE),
     Meta(poolDestination, FALSE, TRUE),
     Meta(salePDA, FALSE, FALSE),
     Meta(tokenProgramId, FALSE, FALSE),
     Meta(tokenWhitelistMap, FALSE, TRUE),
     Meta(tokenWhitelistAccount, FALSE, TRUE),
     Meta(tokenWhitelistProgramId, FALSE, FALSE) >>

\* TokenSale.executeTokenSaleInstruction
executeTokenSaleInstruction(tokenSaleProgramId, amount, userAccount, tokenSaleAccount, userSource, userDestination, saleTokenAccount, poolDestination, tokenProgramId, salePDA, tokenWhitelistProgramId, tokenWhitelistMap, tokenWhitelistAccount) ==
  LET a == toBuffer(NewNumberu64(amount))
  IN IF ~a.ok
     THEN [ok |-> FALSE, ins |-> NoInstruction]
     ELSE [ok |-> TRUE,
           ins |-> [keys |-> ExecuteKeys(userAccount, tokenSaleAccount,
                                         userSource, userDestination,
                                         saleTokenAccount, poolDestination,
                                         tokenProgramId, salePDA,
                                         tokenWhitelistProgramId,
                                         tokenWhitelistMap,
                                         tokenWhitelistAccount),
                    programId |-> tokenSaleProgramId,
                    data |-> StructEncode(ExecuteDataLayout,
                               [instruction |-> <<2>>,
                                usd_amount  |-> a.buf])]]

(***************************************************************************)
(* State                                                                   *)
(***************************************************************************)
VARIABLES
  tokenSale,   \* the TokenSale object: the fields Object.assign sets (147-158)
  saleState,   \* ledger: the data of the sale-state account, or NoAccount
  saleFunded,  \* ledger: a Fund instruction has been executed for the sale
  lastOp,      \* the client method called last
  lastArgs,    \* the arguments of that call
  status,      \* how that call ended: "ok" or the kind of error it threw
  calls,       \* the calls that call made on this.connection, in order
  cStage,      \* codec harness: "idle", "value", "encoded", "decoded", "built", "raw", "rawDecoded", "state", "stateDecoded"
  cIn,         \* codec harness: the value given to new Numberu64()
  cBuf,        \* codec harness: the result of toBuffer(), or the raw buffer
  cOut,        \* codec harness: the result of fromBuffer()
  cBuilt       \* codec harness: the result of an instruction builder given cIn

vars == << tokenSale, saleState, saleFunded, lastOp, lastArgs, status, calls,
           cStage, cIn, cBuf, cOut, cBuilt >>

saleVars == << tokenSale, saleState, saleFunded, lastOp, lastArgs, status, calls >>

codecVars == << cStage, cIn, cBuf, cOut, cBuilt >>

NoAccount == [isInitialized |-> FALSE]

NoArgs == [none |-> TRUE]

NoBN == [negative |-> FALSE, bytes |-> <<>>]

NoResult == [ok |-> FALSE, buf |-> <<>>]

NoDecoded == [ok |-> FALSE, val |-> NoBN]

(***************************************************************************)
(* The ledger: connection, System program and the on-chain sale program    *)
(***************************************************************************)
\* connection.getMinimumBalanceForRentExemption(size): the ledger's rent rule
MinimumBalanceForRentExemption(size) == (128 + size) * 6960

\* SystemProgram.createAccount(params): the instruction is kept as its
\* parameters instead of their System-program encoding
createAccount(space, lamports, fromPubkey, newAccountPubkey, programId) ==
  [keys |-> << Meta(fromPubkey, TRUE, TRUE), Meta(newAccountPubkey, TRUE, TRUE) >>,
   programId |-> SystemProgramId,
   data |-> <<>>,
   create |-> [space |-> space, lamports |-> lamports, owner |-> programId]]

\* the instruction of a transaction that the sale program executes
SaleInstruction(tx) ==
  LET k == CHOOSE j \in 1..Len(tx.instructions) :
             tx.instructions[j].programId # SystemProgramId
  IN tx.instructions[k]

\* its opcode byte
TxOpcode(tx) == SaleInstruction(tx).data[1]

\* what the sale program requires of the sale before it executes a transaction
ProgramAccepts(tx) ==
  CASE TxOpcode(tx) = 0 -> ~saleState.isInitialized
    [] TxOpcode(tx) = 1 -> saleState.isInitialized
    [] TxOpcode(tx) = 2 -> saleState.isInitialized /\ saleFunded
    [] OTHER -> FALSE

\* the sale state the program writes when it executes Init: the fields of the
\* instruction, unchanged
StoredSaleState(ins) ==
  LET d == StructDecode(InitDataLayout, ins.data)
  IN [isInitialized          |-> TRUE,
      initPubkey             |-> ins.keys[1].pubkey,
      saleTokenAccountPubkey |-> ins.keys[4].pubkey,
      poolTokenAccountPubkey |-> ins.keys[3].pubkey,
      whitelistMapPubkey     |-> ins.keys[5].pubkey,
      whitelistProgramPubkey |-> ins.keys[7].pubkey,
      tokenSaleAmount        |-> d.token_sale_amount,
      minAmount              |-> d.usd_min_amount,
      maxAmount              |-> d.usd_max_amount,
      tokenSalePrice         |-> d.token_sale_price,
      tokenSaleTime          |-> d.token_sale_time]

\* new BN(field, 10, "le") of the test client (token-sale-test.js 163-167):
\* the number a little-endian byte array denotes
BNFromArrayLE(field) ==
  [negative |-> FALSE, bytes |-> StripLeadingZeros(Reverse(field))]

\* sendAndConfirmTransaction(title, connection, transaction, ...signers) of
\* js/client/util/send-and-confirm-transaction.js: one submission
SendCall(tx) == [call |-> "sendTransaction", tx |-> tx]

RentCall(size) == [call |-> "getMinimumBalanceForRentExemption", size |-> size]

SentTxs == SelectSeq(calls, LAMBDA c : c.call = "sendTransaction")

(***************************************************************************)
(* TokenSale: construction (135-201)                                       *)
(***************************************************************************)
\* a mutant constructor that assigns the two mints to each other's field
NewTokenSaleSwapped(payer, mintUSDTPubkey, mintSOLRPubkey, tokenSaleAccount, tokenWhitelistMap, tokenSaleProgramId, tokenWhitelistProgramId, tokenProgramId, associatedProgramId) ==
  [payer                   |-> payer,
   mintUSDTPubkey          |-> mintSOLRPubkey,
   mintSOLRPubkey          |-> mintUSDTPubkey,
   tokenSaleAccount        |-> tokenSaleAccount,
   tokenWhitelistMap       |-> tokenWhitelistMap,
   tokenSaleProgramId      |-> tokenSaleProgramId,
   tokenWhitelistProgramId |-> tokenWhitelistProgramId,
   tokenProgramId          |-> tokenProgramId,
   associatedProgramId     |-> associatedProgramId]

\* new TokenSale(...): Object.assign(this, {...})
NewTokenSale(payer, mintUSDTPubkey, mintSOLRPubkey, tokenSaleAccount, tokenWhitelistMap, tokenSaleProgramId, tokenWhitelistProgramId, tokenProgramId, associatedProgramId) ==
  [payer                   |-> payer,
   mintUSDTPubkey          |-> mintUSDTPubkey,
   mintSOLRPubkey          |-> mintSOLRPubkey,
   tokenSaleAccount        |-> tokenSaleAccount,
   tokenWhitelistMap       |-> tokenWhitelistMap,
   tokenSaleProgramId      |-> tokenSaleProgramId,
   tokenWhitelistProgramId |-> tokenWhitelistProgramId,
   tokenProgramId          |-> tokenProgramId,
   associatedProgramId     |-> associatedProgramId]

\* TokenSale.createTokenSale: new Account() is the fresh sale-state key pair
createTokenSale(payer, mintUSDTPubkey, mintSOLRPubkey, tokenWhitelistMap, tokenSaleProgramId, tokenWhitelistProgramId, tokenProgramId, associatedProgramId) ==
  NewTokenSale(payer, mintUSDTPubkey, mintSOLRPubkey, Account("saleState"),
               tokenWhitelistMap, tokenSaleProgramId, tokenWhitelistProgramId,
               tokenProgramId, associatedProgramId)

(***************************************************************************)
(* TokenSale: the transactions the three operations build                  *)
(***************************************************************************)
NoTx == [instructions |-> <<>>, signers |-> <<>>]

\* tokenSaleAccountDataLayout (229-241)
tokenSaleAccountDataLayout ==
  << u8("isInitialized"),
     publicKey("initPubkey"),
     publicKey("saleTokenAccountPubkey"),
     publicKey("poolTokenAccountPubkey"),
     publicKey("whitelistAccountPubkey"),
     publicKey("whitelistProgramPubkey"),
     uint64("tokenSaleAmount"),
     uint64("minAmount"),
     uint64("maxAmount"),
     uint64("tokenSalePrice"),
     uint64("tokenSaleTime") >>

\* a mutant of initTokenSale that adds the Init instruction before the
\* create-account instruction and leaves the sale-state key pair unsigned
initTokenSaleTxMutant(ts, poolTransferAuthority, poolDestination, saleTokenAccount, amount, minAmount, maxAmount, price, timestamp, lamports) ==
  LET ins == initTokenSaleInstruction(ts.tokenSaleProgramId, amount, minAmount,
               maxAmount, price, timestamp, poolTransferAuthority.publicKey,
               ts.tokenSaleAccount.publicKey, poolDestination, saleTokenAccount,
               ts.tokenProgramId, ts.tokenWhitelistProgramId,
               ts.tokenWhitelistMap)
      createSaleAccountInstruction ==
        createAccount(StructSpan(tokenSaleAccountDataLayout), lamports,
                      poolTransferAuthority.publicKey,
                      ts.tokenSaleAccount.publicKey, ts.tokenSaleProgramId)
  IN IF ~ins.ok THEN [ok |-> FALSE, tx |-> NoTx]
     ELSE [ok |-> TRUE,
           tx |-> [instructions |-> << ins.ins, createSaleAccountInstruction >>,
                   signers |-> << ts.payer, poolTransferAuthority >>]]

\* initTokenSale (242-276): the transaction handed to sendAndConfirmTransaction,
\* lamports being the answer of getMinimumBalanceForRentExemption
initTokenSaleTx(ts, poolTransferAuthority, poolDestination, saleTokenAccount, amount, minAmount, maxAmount, price, timestamp, lamports) ==
  LET createSaleAccountInstruction ==
        createAccount(StructSpan(tokenSaleAccountDataLayout), lamports,
                      poolTransferAuthority.publicKey,
                      ts.tokenSaleAccount.publicKey, ts.tokenSaleProgramId)
      ins == initTokenSaleInstruction(ts.tokenSaleProgramId, amount, minAmount,
               maxAmount, price, timestamp, poolTransferAuthority.publicKey,
               ts.tokenSaleAccount.publicKey, poolDestination, saleTokenAccount,
               ts.tokenProgramId, ts.tokenWhitelistProgramId,
               ts.tokenWhitelistMap)
  IN IF ~ins.ok THEN [ok |-> FALSE, tx |-> NoTx]
     ELSE [ok |-> TRUE,
           tx |-> [instructions |-> << createSaleAccountInstruction, ins.ins >>,
                   signers |-> << ts.payer, poolTransferAuthority,
                                  ts.tokenSaleAccount >>]]

\* fundTokenSale (347-363)
fundTokenSaleTx(ts, poolTransferAuthority, poolAccount, saleTokenAccount, amount) ==
  LET ins == fundTokenSaleInstruction(ts.tokenSaleProgramId, amount,
               poolTransferAuthority.publicKey, ts.tokenSaleAccount.publicKey,
               poolAccount, saleTokenAccount, ts.tokenProgramId)
  IN IF ~ins.ok THEN [ok |-> FALSE, tx |-> NoTx]
     ELSE [ok |-> TRUE,
           tx |-> [instructions |-> << ins.ins >>,
                   signers |-> << ts.payer, poolTransferAuthority >>]]

\* a mutant of executeTokenSale that also hands the payer to
\* sendAndConfirmTransaction, as initTokenSale and fundTokenSale do
executeTokenSaleTxWithPayer(ts, userAccount, userSource, userDestination, saleTokenAccount, poolDestination, tokenWhitelistAccount, amount) ==
  LET saleProgramDerivedAddress ==
        findProgramAddress("solrsale", TOKEN_SALE_PROGRAM_ID)
      ins == executeTokenSaleInstruction(ts.tokenSaleProgramId, amount,
               userAccount.publicKey, ts.tokenSaleAccount.publicKey,
               userSource, userDestination, saleTokenAccount, poolDestination,
               ts.tokenProgramId, saleProgramDerivedAddress,
               ts.tokenWhitelistProgramId, ts.tokenWhitelistMap,
               tokenWhitelistAccount)
  IN IF ~ins.ok THEN [ok |-> FALSE, tx |-> NoTx]
     ELSE [ok |-> TRUE,
           tx |-> [instructions |-> << ins.ins >>,
                   signers |-> << ts.payer, userAccount >>]]

\* executeTokenSale (424-448): the derived address comes from the imported
\* TOKEN_SALE_PROGRAM_ID
executeTokenSaleTx(ts, userAccount, userSource, userDestination, saleTokenAccount, poolDestination, tokenWhitelistAccount, amount) ==
  LET saleProgramDerivedAddress ==
        findProgramAddress("solrsale", TOKEN_SALE_PROGRAM_ID)
      ins == executeTokenSaleInstruction(ts.tokenSaleProgramId, amount,
               userAccount.publicKey, ts.tokenSaleAccount.publicKey,
               userSource, userDestination, saleTokenAccount, poolDestination,
               ts.tokenProgramId, saleProgramDerivedAddress,
               ts.tokenWhitelistProgramId, ts.tokenWhitelistMap,
               tokenWhitelistAccount)
  IN IF ~ins.ok THEN [ok |-> FALSE, tx |-> NoTx]
     ELSE [ok |-> TRUE,
           tx |-> [instructions |-> << ins.ins >>,
                   signers |-> << userAccount >>]]

(***************************************************************************)
(* Inputs                                                                  *)
(***************************************************************************)
U64Max == Big(FALSE, <<255, 255, 255, 255, 255, 255, 255, 255>>)

TwoTo64 == Big(FALSE, <<1, 0, 0, 0, 0, 0, 0, 0, 0>>)

\* 1000000 * DECIMAL_MULTIPLIER of the test client, 10^12
TestFundAmount == Big(FALSE, <<232, 212, 165, 16, 0>>)

Amounts == { Num(1000), U64Max, TwoTo64, Num(-1) }

\* prices whose double product with 100 is exact: 0.1, 0.5, 0.125
Prices == { Frac(1, 10), Frac(1, 2), Frac(1, 8) }

\* amount, minAmount, maxAmount, price, timestamp of an initTokenSale call:
\* the test client's bounds and time with every amount and price, and a value
\* of 2^64 at each of the other positions
InitNumbers ==
  { << a, Num(100000000), Num(500000000), p, Num(1700000000) >> :
      a \in Amounts, p \in Prices }
  \cup { << TestFundAmount, Num(100000000), Num(500000000), Frac(1, 10), Num(1700000000) >>,
         << TestFundAmount, TwoTo64, Num(500000000), Frac(1, 10), Num(1700000000) >>,
         << TestFundAmount, Num(100000000), TwoTo64, Frac(1, 10), Num(1700000000) >>,
         << TestFundAmount, Num(100000000), Num(500000000), Frac(1, 10), TwoTo64 >> }

\* what the ledger does with a call: the rent query fails, the transaction
\* is rejected, or the transaction is executed when the program accepts it
Outcomes == { "rentFails", "rejected", "accepted" }

SaleProgramIds == { TOKEN_SALE_PROGRAM_ID, Key("otherSaleProgram") }

Authorities == { Account("ownerPool"), Account("payer") }

\* poolAccount and saleTokenAccount of a fundTokenSale call
FundAccounts ==
  { << Key("poolTokenAccountSOLR"), Key("saleTokenAccountSOLR") >>,
    << Key("saleTokenAccountSOLR"), Key("poolTokenAccountSOLR") >> }

(***************************************************************************)
(* TokenSale: the three operations                                         *)
(***************************************************************************)
\* a mutant of initTokenSale that builds the Init instruction before it asks
\* the ledger for the rent-exempt balance
InitTokenSaleEncodeFirst(poolTransferAuthority, poolDestination, saleTokenAccount, amount, minAmount, maxAmount, price, timestamp, outcome) ==
  LET span  == StructSpan(tokenSaleAccountDataLayout)
      built == initTokenSaleTx(tokenSale, poolTransferAuthority, poolDestination,
                               saleTokenAccount, amount, minAmount, maxAmount,
                               price, timestamp,
                               MinimumBalanceForRentExemption(span))
  IN /\ lastOp' = "initTokenSale"
     /\ lastArgs' = [poolTransferAuthority |-> poolTransferAuthority,
                     poolDestination |-> poolDestination,
                     saleTokenAccount |-> saleTokenAccount,
                     amount |-> amount, minAmount |-> minAmount,
                     maxAmount |-> maxAmount, price |-> price,
                     timestamp |-> timestamp]
     /\ IF ~built.ok
        THEN /\ status' = "EncodingError"
             /\ calls' = <<>>
             /\ UNCHANGED saleState
        ELSE IF outcome = "rentFails"
        THEN /\ status' = "NetworkError"
             /\ calls' = << RentCall(span) >>
             /\ UNCHANGED saleState
        ELSE /\ calls' = << RentCall(span), SendCall(built.tx) >>
             /\ IF outcome = "accepted" /\ ProgramAccepts(built.tx)
                THEN /\ status' = "ok"
                     /\ saleState' = StoredSaleState(SaleInstruction(built.tx))
                ELSE /\ status' = "SubmissionError"
                     /\ UNCHANGED saleState
     /\ UNCHANGED << tokenSale, saleFunded, codecVars >>

\* async initTokenSale (215-277)
InitTokenSale(poolTransferAuthority, poolDestination, saleTokenAccount, amount, minAmount, maxAmount, price, timestamp, outcome) ==
  LET span  == StructSpan(tokenSaleAccountDataLayout)
      built == initTokenSaleTx(tokenSale, poolTransferAuthority, poolDestination,
                               saleTokenAccount, amount, minAmount, maxAmount,
                               price, timestamp,
                               MinimumBalanceForRentExemption(span))
  IN /\ lastOp' = "initTokenSale"
     /\ lastArgs' = [poolTransferAuthority |-> poolTransferAuthority,
                     poolDestination |-> poolDestination,
                     saleTokenAccount |-> saleTokenAccount,
                     amount |-> amount, minAmount |-> minAmount,
                     maxAmount |-> maxAmount, price |-> price,
                     timestamp |-> timestamp]
     /\ IF outcome = "rentFails"
        THEN /\ status' = "NetworkError"
             /\ calls' = << RentCall(span) >>
             /\ UNCHANGED saleState
        ELSE IF ~built.ok
        THEN /\ status' = "EncodingError"
             /\ calls' = << RentCall(span) >>
             /\ UNCHANGED saleState
        ELSE /\ calls' = << RentCall(span), SendCall(built.tx) >>
             /\ IF outcome = "accepted" /\ ProgramAccepts(built.tx)
                THEN /\ status' = "ok"
                     /\ saleState' = StoredSaleState(SaleInstruction(built.tx))
                ELSE /\ status' = "SubmissionError"
                     /\ UNCHANGED saleState
     /\ UNCHANGED << tokenSale, saleFunded, codecVars >>

\* a mutant of fundTokenSale that checks a phase before it submits
FundTokenSaleChecked(poolTransferAuthority, poolAccount, saleTokenAccount, amount, outcome) ==
  LET built == fundTokenSaleTx(tokenSale, poolTransferAuthority, poolAccount,
                               saleTokenAccount, amount)
  IN /\ lastOp' = "fundTokenSale"
     /\ lastArgs' = [poolTransferAuthority |-> poolTransferAuthority,
                     poolAccount |-> poolAccount,
                     saleTokenAccount |-> saleTokenAccount,
                     amount |-> amount]
     /\ IF ~saleState.isInitialized
        THEN /\ status' = "PhaseViolation"
             /\ calls' = <<>>
             /\ UNCHANGED saleFunded
        ELSE IF ~built.ok
        THEN /\ status' = "EncodingError"
             /\ calls' = <<>>
             /\ UNCHANGED saleFunded
        ELSE /\ calls' = << SendCall(built.tx) >>
             /\ IF outcome = "accepted" /\ ProgramAccepts(built.tx)
                THEN /\ status' = "ok"
                     /\ saleFunded' = TRUE
                ELSE /\ status' = "SubmissionError"
                     /\ UNCHANGED saleFunded
     /\ UNCHANGED << tokenSale, saleState, codecVars >>

\* async fundTokenSale (341-364)
FundTokenSale(poolTransferAuthority, poolAccount, saleTokenAccount, amount, outcome) ==
  LET built == fundTokenSaleTx(tokenSale, poolTransferAuthority, poolAccount,
                               saleTokenAccount, amount)
  IN /\ lastOp' = "fundTokenSale"
     /\ lastArgs' = [poolTransferAuthority |-> poolTransferAuthority,
                     poolAccount |-> poolAccount,
                     saleTokenAccount |-> saleTokenAccount,
                     amount |-> amount]
     /\ IF ~built.ok
        THEN /\ status' = "EncodingError"
             /\ calls' = <<>>
             /\ UNCHANGED saleFunded
        ELSE /\ calls' = << SendCall(built.tx) >>
             /\ IF outcome = "accepted" /\ ProgramAccepts(built.tx)
                THEN /\ status' = "ok"
                     /\ saleFunded' = TRUE
                ELSE /\ status' = "SubmissionError"
                     /\ UNCHANGED saleFunded
     /\ UNCHANGED << tokenSale, saleState, codecVars >>

\* async executeTokenSale (414-449)
ExecuteTokenSale(userAccount, userSource, userDestination, saleTokenAccount, poolDestination, tokenWhitelistAccount, amount, outcome) ==
  LET built == executeTokenSaleTx(tokenSale, userAccount, userSource,
                                  userDestination, saleTokenAccount,
                                  poolDestination, tokenWhitelistAccount, amount)
  IN /\ lastOp' = "executeTokenSale"
     /\ lastArgs' = [userAccount |-> userAccount, userSource |-> userSource,
                     userDestination |-> userDestination,
                     saleTokenAccount |-> saleTokenAccount,
                     poolDestination |-> poolDestination,
                     tokenWhitelistAccount |-> tokenWhitelistAccount,
                     amount |-> amount]
     /\ IF ~built.ok
        THEN /\ status' = "EncodingError"
             /\ calls' = <<>>
        ELSE /\ calls' = << SendCall(built.tx) >>
             /\ IF outcome = "accepted" /\ ProgramAccepts(built.tx)
                THEN status' = "ok"
                ELSE status' = "SubmissionError"
     /\ UNCHANGED << tokenSale, saleState, saleFunded, codecVars >>

(***************************************************************************)
(* Specification of the sale client                                        *)
(***************************************************************************)
CodecIdle ==
  /\ cStage = "idle"
  /\ cIn = Num(0)
  /\ cBuf = NoResult
  /\ cOut = NoDecoded
  /\ cBuilt = [which |-> "none", ok |-> FALSE, ins |-> NoInstruction]

\* the arguments of TokenSale.createTokenSale in the test client, for a sale
\* program id
CreateArgs(pid) ==
  [payer                   |-> Account("payer"),
   mintUSDTPubkey          |-> Key("mintUSDT"),
   mintSOLRPubkey          |-> Key("mintSOLR"),
   tokenWhitelistMap       |-> Key("tokenWhitelistMap"),
   tokenSaleProgramId      |-> pid,
   tokenWhitelistProgramId |-> TOKEN_WHITELIST_PROGRAM_ID,
   tokenProgramId          |-> TOKEN_PROGRAM_ID,
   associatedProgramId     |-> ASSOCIATED_TOKEN_ACCOUNT_PROGRAM_ID]

\* the state after TokenSale.createTokenSale(...)
Init ==
  /\ \E pid \in SaleProgramIds :
       /\ lastArgs = CreateArgs(pid)
       /\ tokenSale = createTokenSale(lastArgs.payer, lastArgs.mintUSDTPubkey,
                        lastArgs.mintSOLRPubkey, lastArgs.tokenWhitelistMap,
                        lastArgs.tokenSaleProgramId,
                        lastArgs.tokenWhitelistProgramId,
                        lastArgs.tokenProgramId, lastArgs.associatedProgramId)
  /\ saleState = NoAccount
  /\ saleFunded = FALSE
  /\ lastOp = "createTokenSale"
  /\ status = "ok"
  /\ calls = <<>>
  /\ CodecIdle

DoInit ==
  \E n \in InitNumbers, outcome \in Outcomes :
    InitTokenSale(Account("ownerPool"), Key("poolTokenAccountUSDT"), Key("saleTokenAccountSOLR"),
                  n[1], n[2], n[3], n[4], n[5], outcome)

DoFund ==
  \E auth \in Authorities, acc \in FundAccounts, a \in Amounts,
     outcome \in Outcomes \ {"rentFails"} :
    FundTokenSale(auth, acc[1], acc[2], a, outcome)

DoExecute ==
  \E a \in Amounts, outcome \in Outcomes \ {"rentFails"} :
    ExecuteTokenSale(Account("ownerUser"), Key("userTokenAccountUSDT"),
                     Key("userTokenAccountSOLR"), Key("saleTokenAccountSOLR"),
                     Key("poolTokenAccountUSDT"),
                     Key("tokenWhitelistAccount"), a, outcome)

Next == DoInit \/ DoFund \/ DoExecute

Spec == Init /\ [][Next]_vars

(***************************************************************************)
(* Specification of the codec: Numberu64 and the builders on drawn inputs  *)
(***************************************************************************)
\* the non-zero magnitudes of at most MaxBytes bytes over the digits 0, 1, 255
CodecMagnitudes ==
  { b \in UNION { [1..n -> {0, 1, 255}] : n \in 1..MaxBytes } : b[1] # 0 }

\* the values given to new Numberu64(): big numbers of either sign, zero, and
\* JavaScript numbers around the byte boundaries
CodecValues ==
  { Big(neg, b) : neg \in BOOLEAN, b \in CodecMagnitudes }
  \cup { Big(FALSE, <<>>) }
  \cup { Num(i) : i \in {0, 1, 255, 256, 1000, 65535, 65536, 16777216, 2147483647, -1, -256} }
  \cup { U64Max, TwoTo64, TestFundAmount }

\* the buffers given to Numberu64.fromBuffer
RawBuffers == UNION { [1..n -> {0, 255}] : n \in 0..MaxRawLen }

\* the account data given to the decode of the sale-state layout: every
\* length up to MaxStateLen, the byte at an offset telling the offset
StateBuffers ==
  { [i \in 1..n |-> (i + k) % 256] : n \in 0..MaxStateLen, k \in {0, 100} }

\* the builders and the argument position that receives the drawn value
BuilderPositions ==
  { "init.amount", "init.minAmount", "init.maxAmount", "init.timestamp",
    "fund.amount", "execute.amount" }

CodecInit ==
  /\ tokenSale = createTokenSale(Account("payer"), Key("mintUSDT"),
                   Key("mintSOLR"), Key("tokenWhitelistMap"),
                   TOKEN_SALE_PROGRAM_ID, TOKEN_WHITELIST_PROGRAM_ID,
                   TOKEN_PROGRAM_ID, ASSOCIATED_TOKEN_ACCOUNT_PROGRAM_ID)
  /\ saleState = NoAccount
  /\ saleFunded = FALSE
  /\ lastOp = "createTokenSale"
  /\ lastArgs = NoArgs
  /\ status = "ok"
  /\ calls = <<>>
  /\ cOut = NoDecoded
  /\ cBuilt = [which |-> "none", ok |-> FALSE, ins |-> NoInstruction]
  /\ \/ /\ cStage = "value"
        /\ cIn \in CodecValues
        /\ cBuf = NoResult
     \/ /\ cStage = "raw"
        /\ cIn = Num(0)
        /\ cBuf \in { [ok |-> TRUE, buf |-> b] : b \in RawBuffers }
     \/ /\ cStage = "state"
        /\ cIn = Num(0)
        /\ cBuf \in { [ok |-> TRUE, buf |-> b] : b \in StateBuffers }

\* new Numberu64(cIn).toBuffer()
CodecToBuffer ==
  /\ cStage = "value"
  /\ cStage' = "encoded"
  /\ cBuf' = toBuffer(NewNumberu64(cIn))
  /\ UNCHANGED << saleVars, cIn, cOut, cBuilt >>

\* Numberu64.fromBuffer of the buffer toBuffer() returned
CodecFromBuffer ==
  /\ cStage = "encoded"
  /\ cBuf.ok
  /\ cStage' = "decoded"
  /\ cOut' = fromBuffer(cBuf.buf)
  /\ UNCHANGED << saleVars, cIn, cBuf, cBuilt >>

\* Numberu64.fromBuffer of a drawn buffer
CodecFromRaw ==
  /\ cStage = "raw"
  /\ cStage' = "rawDecoded"
  /\ cOut' = fromBuffer(cBuf.buf)
  /\ UNCHANGED << saleVars, cIn, cBuf, cBuilt >>

\* tokenSaleAccountDataLayout.decode of a drawn account buffer
CodecDecodeState ==
  /\ cStage = "state"
  /\ cStage' = "stateDecoded"
  /\ cOut' = StructureDecode(tokenSaleAccountDataLayout, cBuf.buf)
  /\ UNCHANGED << saleVars, cIn, cBuf, cBuilt >>

\* an instruction builder called with cIn at one amount or timestamp position
BuildWith(which, v) ==
  LET ok1 == Num(1000)
      pk  == Key("k")
  IN CASE which = "init.amount" ->
            initTokenSaleInstruction(pk, v, ok1, ok1, Frac(1, 10), ok1,
                                     pk, pk, pk, pk, pk, pk, pk)
       [] which = "init.minAmount" ->
            initTokenSaleInstruction(pk, ok1, v, ok1, Frac(1, 10), ok1,
                                     pk, pk, pk, pk, pk, pk, pk)
       [] which = "init.maxAmount" ->
            initTokenSaleInstruction(pk, ok1, ok1, v, Frac(1, 10), ok1,
                                     pk, pk, pk, pk, pk, pk, pk)
       [] which = "init.timestamp" ->
            initTokenSaleInstruction(pk, ok1, ok1, ok1, Frac(1, 10), v,
                                     pk, pk, pk, pk, pk, pk, pk)
       [] which = "fund.amount" ->
            fundTokenSaleInstruction(pk, v, pk, pk, pk, pk, pk)
       [] OTHER ->
            executeTokenSaleInstruction(pk, v, pk, pk, pk, pk, pk, pk, pk, pk,
                                        pk, pk, pk)

CodecBuild ==
  /\ cStage = "value"
  /\ cStage' = "built"
  /\ \E which \in BuilderPositions :
       cBuilt' = [which |-> which, ok |-> BuildWith(which, cIn).ok,
                  ins |-> BuildWith(which, cIn).ins]
  /\ UNCHANGED << saleVars, cIn, cBuf, cOut >>

CodecNext ==
  CodecToBuffer \/ CodecFromBuffer \/ CodecFromRaw \/ CodecBuild \/ CodecDecodeState

SpecCodec == CodecInit /\ [][CodecNext]_vars

(***************************************************************************)
(* Vocabulary of the properties                                            *)
(***************************************************************************)
\* the value of an argument is an unsigned integer of at most 8 bytes
InU64(x) == ~NewNumberu64(x).negative /\ Len(NewNumberu64(x).bytes) <= 8

\* the value of an argument is 2^64 or more
AtLeastTwoTo64(x) == ~NewNumberu64(x).negative /\ Len(NewNumberu64(x).bytes) > 8

\* byte i (from 1, least significant first) of a magnitude given big-endian
LEDigit(bytes, i) == IF i <= Len(bytes) THEN bytes[Len(bytes) + 1 - i] ELSE 0

\* byte i (from 1, least significant first) of a natural number below 2^31
LEDigitOfInt(v, i) == IF i > 4 THEN 0 ELSE (v \div (256 ^ (i - 1))) % 256

\* the 8-byte little-endian field of a magnitude
LE8(bytes) == [i \in 1..8 |-> LEDigit(bytes, i)]

RECURSIVE BEToInt(_)
\* the natural number a short big-endian magnitude denotes
BEToInt(bytes) ==
  IF bytes = <<>> THEN 0
  ELSE 256 * BEToInt(SubSeq(bytes, 1, Len(bytes) - 1)) + bytes[Len(bytes)]

\* the transaction the last call submitted
SentTx == SentTxs[1].tx

\* the sale-program instruction of that transaction
SentIns == SaleInstruction(SentTx)

\* an account-reference list as the triples <<address, signer, writable>>
KeyList(keys) ==
  [i \in 1..Len(keys) |-> << keys[i].pubkey, keys[i].isSigner, keys[i].isWritable >>]

(***************************************************************************)
(* C2  Round-trip codec                                                    *)
(***************************************************************************)
\* C2: for every integer v in [0, 2^64-1], new Numberu64(v).toBuffer()
\* returns exactly 8 bytes that hold v little-endian with zeros at the high
\* end, and Numberu64.fromBuffer of these bytes equals v.
C2_RoundTrip ==
  (cStage \in {"encoded", "decoded"} /\ InU64(cIn)) =>
    /\ cBuf.ok
    /\ Len(cBuf.buf) = 8
    /\ \A i \in 1..8 :
         cBuf.buf[i] = IF cIn.kind = "number"
                       THEN LEDigitOfInt(cIn.num, i)
                       ELSE LEDigit(cIn.bytes, i)
    /\ cStage = "decoded" =>
         /\ cOut.ok
         /\ ~cOut.val.negative
         /\ cOut.val.bytes = NewNumberu64(cIn).bytes
         /\ cIn.kind = "number" => BEToInt(cOut.val.bytes) = cIn.num

\* a value of eight significant bytes and one that needs padding, both decoded
C2_Witness ==
  /\ cStage = "decoded"
  /\ cIn \in {U64Max, Num(256)}
  /\ cOut.ok

(***************************************************************************)
(* C10  Width errors                                                       *)
(***************************************************************************)
\* C10: toBuffer throws for every value of 2^64 or more, fromBuffer throws
\* for every buffer whose length is not 8, and no instruction builder returns
\* an instruction when one of its amount or timestamp arguments is 2^64 or more.
C10_WidthErrors ==
  /\ (cStage = "encoded" /\ AtLeastTwoTo64(cIn)) => ~cBuf.ok
  /\ (cStage = "rawDecoded" /\ Len(cBuf.buf) # 8) => ~cOut.ok
  /\ (cStage = "built" /\ AtLeastTwoTo64(cIn)) => ~cBuilt.ok

\* 2^64 was given to toBuffer and to a builder, and a 7-byte buffer to fromBuffer
C10_Witness ==
  \/ cStage = "encoded" /\ cIn = TwoTo64 /\ ~cBuf.ok
  \/ cStage = "built" /\ cIn = TwoTo64 /\ cBuilt.which = "init.timestamp"
  \/ cStage = "rawDecoded" /\ Len(cBuf.buf) = 7

(***************************************************************************)
(* C1  Phase ordering                                                      *)
(***************************************************************************)
\* the last call was made out of order: a fund before any successful
\* initialize, or an execute before any successful fund (neither call changes
\* the fact it is judged by)
OutOfOrder ==
  \/ lastOp = "fundTokenSale" /\ ~saleState.isInitialized
  \/ lastOp = "executeTokenSale" /\ ~saleFunded

\* C1 as stated: fundTokenSale before any successful initTokenSale, and
\* executeTokenSale before any successful fundTokenSale, fail with a
\* PhaseViolation and submit no transaction.
C1_PhaseViolation ==
  OutOfOrder => (status = "PhaseViolation" /\ SentTxs = <<>>)

\* C1 as amended: the client keeps no phase; a call made out of order is
\* never refused with a PhaseViolation: when its amount fits 8 bytes it
\* submits exactly one transaction, holding its Fund or Execute instruction,
\* and the ledger decides; otherwise it fails encoding and submits nothing.
C1_NoLocalPhaseCheck ==
  OutOfOrder =>
    /\ status # "PhaseViolation"
    /\ IF Len(NewNumberu64(lastArgs.amount).bytes) <= 8
       THEN /\ status \in {"ok", "SubmissionError"}
            /\ Len(SentTxs) = 1
            /\ Len(SentTx.instructions) = 1
            /\ TxOpcode(SentTx) = IF lastOp = "fundTokenSale" THEN 1 ELSE 2
       ELSE /\ status = "EncodingError"
            /\ SentTxs = <<>>

\* a fund before any initialize reached the ledger
C1_Witness ==
  /\ lastOp = "fundTokenSale"
  /\ ~saleState.isInitialized
  /\ Len(SentTxs) = 1

(***************************************************************************)
(* C3  Price encoding                                                      *)
(***************************************************************************)
\* the token_sale_price field of the Init instruction that was submitted
PriceField == SubSeq(SentIns.data, 26, 33)

InitSent == lastOp = "initTokenSale" /\ SentTxs # <<>>

\* Math.round(1 / price) for a positive price num/den
RoundReciprocal(price) == (2 * price.den + price.num) \div (2 * price.num)

\* C3 as stated: the token_sale_price field equals round(1 / price) * 100;
\* price = 0.1 is encoded as 1000.
C3_ReciprocalTimes100 ==
  InitSent =>
    /\ PriceField = LE8(IntToBytes(RoundReciprocal(lastArgs.price) * 100))
    /\ lastArgs.price = Frac(1, 10) => PriceField = <<232, 3, 0, 0, 0, 0, 0, 0>>

\* C3 as amended: the token_sale_price field equals the integer part of
\* price * 100; price = 0.1 is encoded as the u64 value 10.
C3_PriceTimes100 ==
  InitSent =>
    /\ \A i \in 1..8 :
         PriceField[i] =
           LEDigitOfInt((lastArgs.price.num * 100) \div lastArgs.price.den, i)
    /\ lastArgs.price = Frac(1, 10) => PriceField = <<10, 0, 0, 0, 0, 0, 0, 0>>

\* an Init instruction with price 0.1 was submitted
C3_Witness == InitSent /\ lastArgs.price = Frac(1, 10)

(***************************************************************************)
(* C4  The sale state after initTokenSale                                  *)
(***************************************************************************)
\* C4: after a successful initTokenSale the decoded sale state carries
\* tokenSaleAmount = amount, minAmount = minAmount, maxAmount = maxAmount,
\* tokenSaleTime = timestamp and tokenSalePrice = 1 / price, for every price.
C4_DecodedState ==
  (lastOp = "initTokenSale" /\ status = "ok" /\ InU64(lastArgs.amount)) =>
    /\ BNFromArrayLE(saleState.tokenSaleAmount).bytes = NewNumberu64(lastArgs.amount).bytes
    /\ BNFromArrayLE(saleState.minAmount).bytes = NewNumberu64(lastArgs.minAmount).bytes
    /\ BNFromArrayLE(saleState.maxAmount).bytes = NewNumberu64(lastArgs.maxAmount).bytes
    /\ BNFromArrayLE(saleState.tokenSaleTime).bytes = NewNumberu64(lastArgs.timestamp).bytes
    /\ BEToInt(BNFromArrayLE(saleState.tokenSalePrice).bytes) * lastArgs.price.num
         = lastArgs.price.den

(***************************************************************************)
(* C5, C6, C7  Account-reference lists                                     *)
(***************************************************************************)
\* C5: the Init instruction lists, in this order and with these flags,
\* pool authority (signer), sale state (writable), pool destination, sale
\* token account (writable), whitelist map, token program, whitelist program
\* and rent sysvar, each position holding the address passed for its role.
C5_InitAccounts ==
  InitSent =>
    KeyList(SentIns.keys) =
      << << lastArgs.poolTransferAuthority.publicKey, TRUE, FALSE >>,
         << tokenSale.tokenSaleAccount.publicKey, FALSE, TRUE >>,
         << lastArgs.poolDestination, FALSE, FALSE >>,
         << lastArgs.saleTokenAccount, FALSE, TRUE >>,
         << tokenSale.tokenWhitelistMap, FALSE, FALSE >>,
         << tokenSale.tokenProgramId, FALSE, FALSE >>,
         << tokenSale.tokenWhitelistProgramId, FALSE, FALSE >>,
         << SYSVAR_RENT_PUBKEY, FALSE, FALSE >> >>

C5_Witness == InitSent /\ status = "ok"

ExecuteSent == lastOp = "executeTokenSale" /\ SentTxs # <<>>

\* C6: the Execute instruction lists, in this order, user (signer), sale
\* state, sale token account (w), user destination (w), user source (w), pool
\* destination (w), the address derived with seed "solrsale", token program,
\* whitelist map (w), whitelist account (w), whitelist program; every
\* argument of executeTokenSale is at the position of its role and only the
\* user is a signer.
C6_ExecuteAccounts ==
  ExecuteSent =>
    /\ Len(SentIns.keys) = 11
    /\ [i \in {1, 2, 3, 4, 5, 6, 8, 9, 10, 11} |-> KeyList(SentIns.keys)[i]] =
         ( 1  :> << lastArgs.userAccount.publicKey, TRUE, FALSE >>
        @@ 2  :> << tokenSale.tokenSaleAccount.publicKey, FALSE, FALSE >>
        @@ 3  :> << lastArgs.saleTokenAccount, FALSE, TRUE >>
        @@ 4  :> << lastArgs.userDestination, FALSE, TRUE >>
        @@ 5  :> << lastArgs.userSource, FALSE, TRUE >>
        @@ 6  :> << lastArgs.poolDestination, FALSE, TRUE >>
        @@ 8  :> << tokenSale.tokenProgramId, FALSE, FALSE >>
        @@ 9  :> << tokenSale.tokenWhitelistMap, FALSE, TRUE >>
        @@ 10 :> << lastArgs.tokenWhitelistAccount, FALSE, TRUE >>
        @@ 11 :> << tokenSale.tokenWhitelistProgramId, FALSE, FALSE >> )
    /\ SentIns.keys[7].pubkey.seed = "solrsale"
    /\ ~SentIns.keys[7].isSigner
    /\ ~SentIns.keys[7].isWritable

C6_Witness == ExecuteSent /\ status = "ok"

FundSent == lastOp = "fundTokenSale" /\ SentTxs # <<>>

\* C7: the Fund instruction lists, in this order, pool authority (signer, not
\* writable), sale state (read-only), pool token account (writable), sale
\* token account (writable), token program (read-only); poolAccount and
\* saleTokenAccount of fundTokenSale are at positions 3 and 4, not exchanged.
C7_FundAccounts ==
  FundSent =>
    KeyList(SentIns.keys) =
      << << lastArgs.poolTransferAuthority.publicKey, TRUE, FALSE >>,
         << tokenSale.tokenSaleAccount.publicKey, FALSE, FALSE >>,
         << lastArgs.poolAccount, FALSE, TRUE >>,
         << lastArgs.saleTokenAccount, FALSE, TRUE >>,
         << tokenSale.tokenProgramId, FALSE, FALSE >> >>

C7_Witness ==
  /\ FundSent
  /\ status = "ok"
  /\ lastArgs.poolAccount # lastArgs.saleTokenAccount

(***************************************************************************)
(* C8  Payload layouts                                                     *)
(***************************************************************************)
\* the 8-byte field an argument of the u64 range must occupy
FieldHolds(field, x) ==
  InU64(x) => \A i \in 1..8 : field[i] = LEDigit(NewNumberu64(x).bytes, i)

\* C8: the Init payload is exactly 41 bytes, byte 0 = 0, followed by
\* saleAmount, usdMin, usdMax, price, saleTimestamp as consecutive 8-byte
\* little-endian fields; the Fund payload is exactly 9 bytes, byte 0 = 1,
\* followed by amount; the Execute payload is exactly 9 bytes, byte 0 = 2,
\* followed by usdAmount; no padding, no field out of order.
C8_Payloads ==
  /\ InitSent =>
       /\ Len(SentIns.data) = 41
       /\ SentIns.data[1] = 0
       /\ FieldHolds(SubSeq(SentIns.data, 2, 9), lastArgs.amount)
       /\ FieldHolds(SubSeq(SentIns.data, 10, 17), lastArgs.minAmount)
       /\ FieldHolds(SubSeq(SentIns.data, 18, 25), lastArgs.maxAmount)
       /\ FieldHolds(SubSeq(SentIns.data, 26, 33),
                     Num((lastArgs.price.num * 100) \div lastArgs.price.den))
       /\ FieldHolds(SubSeq(SentIns.data, 34, 41), lastArgs.timestamp)
  /\ FundSent =>
       /\ Len(SentIns.data) = 9
       /\ SentIns.data[1] = 1
       /\ FieldHolds(SubSeq(SentIns.data, 2, 9), lastArgs.amount)
  /\ ExecuteSent =>
       /\ Len(SentIns.data) = 9
       /\ SentIns.data[1] = 2
       /\ FieldHolds(SubSeq(SentIns.data, 2, 9), lastArgs.amount)

\* an Init payload whose amount fills all eight bytes was submitted
C8_Witness == InitSent /\ lastArgs.amount = U64Max

(***************************************************************************)
(* C9  The transaction of initTokenSale                                    *)
(***************************************************************************)
\* C9: initTokenSale submits exactly one transaction of two instructions:
\* first the create-account instruction that allocates exactly 201 bytes
\* (1 + 5*32 + 5*8) for the client's sale-state address, rent-exempt and
\* owned by the sale program id, then the Init instruction referencing the
\* same sale-state address; payer, authority and the sale-state key pair sign.
C9_InitTransaction ==
  lastOp = "initTokenSale" =>
    /\ Len(SentTxs) = IF status \in {"ok", "SubmissionError"} THEN 1 ELSE 0
    /\ SentTxs # <<>> =>
         /\ Len(SentTx.instructions) = 2
         /\ SentTx.instructions[1].programId = SystemProgramId
         /\ SentTx.instructions[1].create.space = 201
         /\ 201 = 1 + 5 * 32 + 5 * 8
         /\ SentTx.instructions[1].create.lamports = MinimumBalanceForRentExemption(201)
         /\ SentTx.instructions[1].create.owner = tokenSale.tokenSaleProgramId
         /\ SentTx.instructions[1].keys[2].pubkey = tokenSale.tokenSaleAccount.publicKey
         /\ SentTx.instructions[2].programId = tokenSale.tokenSaleProgramId
         /\ SentTx.instructions[2].data[1] = 0
         /\ SentTx.instructions[2].keys[2].pubkey = tokenSale.tokenSaleAccount.publicKey
         /\ SentTx.signers = << tokenSale.payer, lastArgs.poolTransferAuthority,
                                tokenSale.tokenSaleAccount >>

\* an initTokenSale whose transaction the ledger executed
C9_Witness ==
  /\ lastOp = "initTokenSale"
  /\ status = "ok"
  /\ saleState.isInitialized
  /\ Len(SentTxs) = 1

(***************************************************************************)
(* C11  Error propagation order                                            *)
(***************************************************************************)
\* C11 as stated: in initTokenSale, fundTokenSale and executeTokenSale a
\* local encoding error is raised before the operation makes any call to the
\* ledger client; only submission errors are raised after a network attempt.
C11_LocalErrorsBeforeAnyCall ==
  /\ status = "EncodingError" => calls = <<>>
  /\ status = "SubmissionError" => calls # <<>>

\* C11 as amended: an encoding error is raised before any transaction is
\* submitted; fundTokenSale and executeTokenSale have then made no call to
\* the ledger client, initTokenSale has made exactly one, the query of the
\* rent-exempt balance for the 201 bytes, which precedes its encoding.  A
\* submission error is raised only after the one submission, and the only
\* other error after a ledger call is a failure of that rent query.
C11_ErrorOrder ==
  /\ status = "EncodingError" =>
       /\ SentTxs = <<>>
       /\ calls = IF lastOp = "initTokenSale"
                  THEN << [call |-> "getMinimumBalanceForRentExemption", size |-> 201] >>
                  ELSE <<>>
  /\ status = "SubmissionError" =>
       /\ Len(SentTxs) = 1
       /\ calls[Len(calls)].call = "sendTransaction"
  /\ (status \notin {"ok", "EncodingError", "SubmissionError"}) =>
       /\ lastOp = "initTokenSale"
       /\ status = "NetworkError"
       /\ calls = << [call |-> "getMinimumBalanceForRentExemption", size |-> 201] >>

\* an initTokenSale whose timestamp is 2^64 failed encoding after its rent query
C11_Witness ==
  /\ lastOp = "initTokenSale"
  /\ status = "EncodingError"
  /\ lastArgs.timestamp = TwoTo64
  /\ Len(calls) = 1

(***************************************************************************)
(* C12  Decoding the sale-state account                                    *)
(***************************************************************************)
\* the sale-state record: property, offset and width of every field
SaleStateFields ==
  << << "isInitialized", 0, 1 >>,
     << "initPubkey", 1, 32 >>,
     << "saleTokenAccountPubkey", 33, 32 >>,
     << "poolTokenAccountPubkey", 65, 32 >>,
     << "whitelistAccountPubkey", 97, 32 >>,
     << "whitelistProgramPubkey", 129, 32 >>,
     << "tokenSaleAmount", 161, 8 >>,
     << "minAmount", 169, 8 >>,
     << "maxAmount", 177, 8 >>,
     << "tokenSalePrice", 185, 8 >>,
     << "tokenSaleTime", 193, 8 >> >>

\* how many bytes of a field at offset off and of width w a buffer of n bytes holds
Held(n, off, w) == IF n - off >= w THEN w ELSE IF n - off <= 0 THEN 0 ELSE n - off

CreateAddresses ==
  { lastArgs.payer.publicKey, lastArgs.mintUSDTPubkey, lastArgs.mintSOLRPubkey,
    lastArgs.tokenWhitelistMap, lastArgs.tokenSaleProgramId,
    lastArgs.tokenWhitelistProgramId, lastArgs.tokenProgramId,
    lastArgs.associatedProgramId }

\* createTokenSale has made no ledger call and its client carries the
\* arguments and a sale-state account that is none of them
CreatedAsGiven ==
  lastOp = "createTokenSale" =>
    /\ calls = <<>>
    /\ tokenSale.payer = lastArgs.payer
    /\ tokenSale.mintUSDTPubkey = lastArgs.mintUSDTPubkey
    /\ tokenSale.mintSOLRPubkey = lastArgs.mintSOLRPubkey
    /\ tokenSale.tokenWhitelistMap = lastArgs.tokenWhitelistMap
    /\ tokenSale.tokenSaleProgramId = lastArgs.tokenSaleProgramId
    /\ tokenSale.tokenWhitelistProgramId = lastArgs.tokenWhitelistProgramId
    /\ tokenSale.tokenProgramId = lastArgs.tokenProgramId
    /\ tokenSale.associatedProgramId = lastArgs.associatedProgramId
    /\ tokenSale.tokenSaleAccount.publicKey \notin CreateAddresses

\* C13: createTokenSale makes no ledger call and returns a client whose
\* payer, mints, whitelist map and four program ids equal its arguments, with
\* a fresh sale-state account; no initTokenSale, fundTokenSale or
\* executeTokenSale call, successful or failed, changes any of these fields.
C13_IdentityImmutable ==
  /\ []CreatedAsGiven
  /\ [][tokenSale' = tokenSale]_vars

\* a client of another sale program after a failed and three successful calls
C13_Witness ==
  /\ lastOp = "executeTokenSale"
  /\ status = "ok"
  /\ tokenSale.tokenSaleProgramId = Key("otherSaleProgram")
  /\ tokenSale.tokenSaleAccount = Account("saleState")

(***************************************************************************)
(* C14  Signer sets                                                        *)
(***************************************************************************)
\* C14: the transaction submitted by fundTokenSale is signed by the client's
\* payer and the pool authority, the payer first (the fee payer); the one
\* submitted by executeTokenSale is signed by the user account alone, so the
\* client's payer neither signs nor pays for an Execute transaction.
C14_SignerSets ==
  /\ FundSent =>
       SentTx.signers = << tokenSale.payer, lastArgs.poolTransferAuthority >>
  /\ ExecuteSent =>
       /\ SentTx.signers = << lastArgs.userAccount >>
       /\ lastArgs.userAccount # tokenSale.payer =>
            \A i \in 1..Len(SentTx.signers) : SentTx.signers[i] # tokenSale.payer

\* an Execute transaction of a user who is not the payer, on a funded sale
C14_Witness ==
  /\ ExecuteSent
  /\ saleFunded
  /\ lastArgs.userAccount # tokenSale.payer

(***************************************************************************)
(* C15  The program of the derived authority                               *)
(***************************************************************************)
\* C15: the sale-program-derived authority placed in an Execute instruction
\* is derived, with seed "solrsale", from the program id the instruction
\* targets, the client's tokenSaleProgramId, whatever id createTokenSale got.
C15_DerivedFromTargetProgram ==
  ExecuteSent =>
    /\ SentIns.programId = tokenSale.tokenSaleProgramId
    /\ SentIns.keys[7].pubkey.seed = "solrsale"
    /\ SentIns.keys[7].pubkey.id = SentIns.programId.id

(***************************************************************************)
(* C16  Negative amounts                                                   *)
(***************************************************************************)
\* C16: toBuffer returns a buffer only for values in [0, 2^64-1]; for every
\* negative integer argument the builders fail instead of emitting the
\* encoding of another value.
C16_NegativeRejected ==
  /\ (cStage = "encoded" /\ cBuf.ok) => InU64(cIn)
  /\ (cStage = "built" /\ NewNumberu64(cIn).negative) => ~cBuilt.ok

====
